---- MODULE Spec2Model ----
(***************************************************************************)
(* A model of src/Extract.py: the TilliT client object, its construction   *)
(* (scenario resolution), its three fetch primitives, the batched          *)
(* completion lookup and the exposed view builders.                        *)
(*                                                                         *)
(* Text is modelled as a sequence of one-character strings, so that        *)
(* "'?' in url" is a test the model performs on the characters.            *)
(* A nullable value is a sequence of length at most one (<<>> is None).    *)
(* Order numbers are modelled by natural numbers.                          *)
(***************************************************************************)
EXTENDS Integers, Sequences, FiniteSets, TLC

VARIABLES
    site,                     \* self._site
    tenant,                   \* self._tenant
    baseURL,                  \* self._baseURL
    baseURLScheduler,         \* self._baseURLScheduler
    baseURLSchedulerGraphQL,  \* self._baseURLSchedulerGraphQL
    scheduler_data_id,        \* self._scheduler_data_id
    scheduler_scenario_id,    \* self._scheduler_scenario_id
    obj,                      \* "new": not constructed, "ready", "failed": __init__ raised
    scenResp,                 \* the response the scenario query received (<<>> before it)
    op,                       \* the operation called last, "none" before the first call
    pc,                       \* the position inside the call in progress, "idle" between calls
    args,                     \* the arguments of the operation in progress
    reqs,                     \* the requests issued by the current call, in order
    lastFetch,                \* the last fetch_scheduler / fetch_DO: function, endpoint, url
    result,                   \* what the last finished call handed to its caller
    plannedOrders,            \* local of scheduler_get_orders
    scheduledOrder,           \* local of scheduler_get_orders
    data,                     \* local data of a graph-query helper: the decoded answer
    merged_df,                \* local of scheduler_get_orders
    tables,                   \* the frames scheduler_get_bom_setup and
                              \* _scheduler_get_materials fetched, in order
    orderNumbers,             \* argument of _do_get_completed_orders
    batchIdx,                 \* number of batches _do_get_completed_orders has requested
    orders,                   \* local accumulator of _do_get_completed_orders
    doOrders                  \* the value _do_get_completed_orders returned

fields ==
    <<site, tenant, baseURL, baseURLScheduler, baseURLSchedulerGraphQL,
      scheduler_data_id, scheduler_scenario_id>>

locals ==
    <<plannedOrders, scheduledOrder, data, merged_df, tables, orderNumbers, batchIdx,
      orders, doOrders>>

vars ==
    <<site, tenant, baseURL, baseURLScheduler, baseURLSchedulerGraphQL,
      scheduler_data_id, scheduler_scenario_id, obj, scenResp, op, pc, args, reqs,
      lastFetch, result, plannedOrders, scheduledOrder, data, merged_df, tables,
      orderNumbers, batchIdx, orders, doOrders>>

(***************************************************************************)
(* Bounds of the model.                                                    *)
(***************************************************************************)
MaxStr == 2        \* longest site, tenant and endpoint text explored
MaxId == 2         \* largest scenario / data-template id the service answers
MaxOrders == 2     \* most orders in one getOrdersForScenario answer
MaxAllocs == 2     \* most allocations in one getAllocations answer
MaxN == 161        \* longest list handed to _do_get_completed_orders alone
DupPeriod == 7     \* period of the repeating input lists of _do_get_completed_orders
MaxPriority == 4   \* largest priority code an order is answered with
MaxOps == 2        \* most rows of the operations table
MaxRoutes == 2     \* most rows of the routes table

(***************************************************************************)
(* Text.                                                                   *)
(***************************************************************************)
Alphabet == {"a", "?"}

StrUpTo(n) == UNION {[1..k -> Alphabet] : k \in 0..n}

\* c in s
Contains(s, c) == \E i \in 1..Len(s) : s[i] = c

Digit(d) ==
    CASE d = 0 -> "0" [] d = 1 -> "1" [] d = 2 -> "2" [] d = 3 -> "3" [] d = 4 -> "4"
      [] d = 5 -> "5" [] d = 6 -> "6" [] d = 7 -> "7" [] d = 8 -> "8" [] d = 9 -> "9"

RECURSIVE Str(_)
\* str(n) of a natural number
Str(n) == IF n < 10 THEN <<Digit(n)>> ELSE Str(n \div 10) \o <<Digit(n % 10)>>

RECURSIVE Join(_)
\* ",".join(batch), computed by halves
Join(batch) ==
    IF Len(batch) = 0 THEN <<>>
    ELSE IF Len(batch) = 1 THEN Str(batch[1])
    ELSE LET h == Len(batch) \div 2
         IN  Join(SubSeq(batch, 1, h)) \o <<",">> \o Join(SubSeq(batch, h + 1, Len(batch)))

HttpsPrefix ==
    <<"h", "t", "t", "p", "s", ":", "/", "/">>

TillitHost ==
    <<".", "t", "i", "l", "l", "i", "t">>

StageSuffix ==
    <<"-", "s", "t", "a", "g", "e">>

CloudApi ==
    <<".", "c", "l", "o", "u", "d", "/", "a", "u", "/", "a", "p", "i">>

SchedulerPath ==
    <<"/", "s", "c", "h", "e", "d", "u", "l", "e", "r">>

GraphQLPath ==
    <<"/", "s", "c", "h", "e", "d", "u", "l", "e", "r", "/", "g", "r", "a", "p", "h", "q", "l">>

PagingParams ==
    <<"p", "a", "g", "e", "=", "0", "&", "s", "i", "z", "e", "=", "1", "0", "0", "0",
      "0", "0", "&", "s", "o", "r", "t", "=", "i", "d", ",", "a", "s", "c">>

EpOperations ==
    <<"/", "o", "p", "e", "r", "a", "t", "i", "o", "n", "s">>

EpRoutes ==
    <<"/", "r", "o", "u", "t", "e", "s">>

EpMaterialDefinitions ==
    <<"/", "m", "a", "t", "e", "r", "i", "a", "l", "-", "d", "e", "f", "i", "n", "i",
      "t", "i", "o", "n", "s">>

EpMaterialsProperties ==
    <<"/", "m", "a", "t", "e", "r", "i", "a", "l", "-", "p", "r", "o", "p", "e", "r",
      "t", "i", "e", "s">>

EpSegments ==
    <<"/", "s", "e", "g", "m", "e", "n", "t", "s">>

EpSegmentEquipments ==
    <<"/", "s", "e", "g", "m", "e", "n", "t", "-", "e", "q", "u", "i", "p", "m", "e",
      "n", "t", "s">>

EpSegmentMaterials ==
    <<"/", "s", "e", "g", "m", "e", "n", "t", "-", "m", "a", "t", "e", "r", "i", "a",
      "l", "s">>

EpOrderInstances ==
    <<"c", "o", "r", "e", "/", "o", "r", "d", "e", "r", "-", "i", "n", "s", "t", "a",
      "n", "c", "e", "s", "?", "s", "t", "a", "t", "u", "s", ".", "e", "q", "u", "a",
      "l", "s", "=", "C", "O", "M", "P", "L", "E", "T", "E", "D", "&", "o", "r", "d",
      "e", "r", "N", "u", "m", "b", "e", "r", ".", "i", "n", "=">>

\* f"https://{tenant}.tillit{'-stage' if isStage else ''}.cloud/au/api"
BaseURLOf(t, isStage) ==
    HttpsPrefix \o t \o TillitHost \o (IF isStage THEN StageSuffix ELSE <<>>) \o CloudApi

\* a variant of the operator below that always joins with '?'
AppendPagingAlwaysQuery(u) == u \o <<"?">> \o PagingParams

\* f"{url}{'&' if ('?' in url) else '?'}page=0&size=100000&sort=id,asc"
AppendPaging(u) ==
    u \o <<(IF Contains(u, "?") THEN "&" ELSE "?")>> \o PagingParams

\* the url fetch_scheduler requests for an endpoint
SchedulerUrl(base, endpoint) == AppendPaging(base \o endpoint)

\* the url fetch_DO requests for an endpoint
DOUrl(base, endpoint) == AppendPaging(base \o <<"/">> \o endpoint)

(***************************************************************************)
(* Results and requests.                                                   *)
(***************************************************************************)
NoResult == [kind |-> "none", rows |-> <<>>, err |-> "none"]

Raised(e) == [kind |-> "error", rows |-> <<>>, err |-> e]

View(rows) == [kind |-> "view", rows |-> rows, err |-> "none"]

\* a request of the current call: the service, what was asked, the HTTP outcome,
\* and for a completion lookup the batch asked about and the order numbers answered
Req(api, name, status) ==
    [api |-> api, name |-> name, status |-> status, isNull |-> FALSE, batch |-> <<>>,
     returned |-> <<>>]

\* a graph query, and whether the field it asked for came back null
GraphReq(name, status, isNull) ==
    [api |-> "graphql", name |-> name, status |-> status, isNull |-> isNull,
     batch |-> <<>>, returned |-> <<>>]

BatchReq(batch, status, returned) ==
    [api |-> "DO", name |-> "order-instances", status |-> status, isNull |-> FALSE,
     batch |-> batch, returned |-> returned]

HttpStatus == {"ok", "fail"}

NoFetch == [fn |-> "none", endpoint |-> <<>>, url |-> <<>>]

\* a DataFrame, or None
DF(rows) == [isNone |-> FALSE, rows |-> rows]

NoneDF == [isNone |-> TRUE, rows |-> <<>>]

(***************************************************************************)
(* Construction.                                                           *)
(***************************************************************************)
\* Optional ids the scenario query may answer: <<>> is null
IdVals == {<<>>} \cup {<<i>> : i \in (-1)..MaxId}

\* The answers to the scenario query: a failed request, an empty scenario
\* list, or a first scenario with its (nullable) id and data-template id.
ScenarioResponses ==
    {[http |-> "fail", scenarios |-> <<>>], [http |-> "ok", scenarios |-> <<>>]}
    \cup {[http |-> "ok", scenarios |-> <<[id |-> i, dataTemplateId |-> d]>>] :
            i \in IdVals, d \in IdVals}

\* a variant of the test below that lets a data-template id of 0 through
IdsResolvedLoose(dataId, scenarioId) == dataId >= 0 /\ scenarioId > 0

\* the test of __init__ after _set_data_template
IdsResolved(dataId, scenarioId) == dataId > 0 /\ scenarioId > 0

\* __init__(site, tenant, authBase64, isStage), _set_data_template included
ConstructWith(Sites, Tenants, Stages, Resps) ==
    /\ obj = "new"
    /\ \E s \in Sites, t \in Tenants, isStage \in Stages, r \in Resps :
        LET base == BaseURLOf(t, isStage)
            sc == r.scenarios
            \* int(scenario["dataTemplate"]["id"]) is evaluated before int(scenario["id"])
            dataOk == r.http = "ok" /\ Len(sc) > 0 /\ Len(sc[1].dataTemplateId) > 0
            scenOk == dataOk /\ Len(sc[1].id) > 0
            dataId == IF dataOk THEN sc[1].dataTemplateId[1] ELSE 0
            scenId == IF scenOk THEN sc[1].id[1] ELSE 0
            good == scenOk /\ IdsResolved(dataId, scenId)
            e == IF r.http = "fail" THEN "HTTPError"
                 ELSE IF Len(sc) = 0 THEN "IndexError"
                 ELSE IF ~scenOk THEN "TypeError"
                 ELSE "Exception"
        IN  /\ site' = s
            /\ tenant' = t
            /\ baseURL' = base
            /\ baseURLSchedulerGraphQL' = base \o GraphQLPath
            /\ scheduler_data_id' = dataId
            /\ scheduler_scenario_id' = scenId
            /\ baseURLScheduler' =
                 IF good THEN base \o SchedulerPath \o <<"/">> \o s \o <<"/">> \o Str(dataId)
                 ELSE base \o SchedulerPath
            /\ scenResp' = <<r>>
            /\ reqs' = <<GraphReq("scenarios", r.http, FALSE)>>
            /\ obj' = IF good THEN "ready" ELSE "failed"
            /\ result' = IF good THEN NoResult ELSE Raised(e)
    /\ UNCHANGED <<op, pc, args, lastFetch, locals>>

Init ==
    /\ site = <<>>
    /\ tenant = <<>>
    /\ baseURL = <<>>
    /\ baseURLScheduler = <<>>
    /\ baseURLSchedulerGraphQL = <<>>
    /\ scheduler_data_id = 0
    /\ scheduler_scenario_id = 0
    /\ obj = "new"
    /\ scenResp = <<>>
    /\ op = "none"
    /\ pc = "idle"
    /\ args = <<>>
    /\ reqs = <<>>
    /\ lastFetch = NoFetch
    /\ result = NoResult
    /\ plannedOrders = NoneDF
    /\ scheduledOrder = NoneDF
    /\ data = <<>>
    /\ merged_df = <<>>
    /\ tables = <<>>
    /\ orderNumbers = <<>>
    /\ batchIdx = 0
    /\ orders = <<>>
    /\ doOrders = <<>>

(***************************************************************************)
(* The paged fetches, called on their own with any endpoint text.          *)
(***************************************************************************)
\* fetch_scheduler(endpoint)
FetchScheduler ==
    /\ obj = "ready" /\ pc = "idle"
    /\ \E endpoint \in StrUpTo(MaxStr), st \in HttpStatus :
        /\ lastFetch' = [fn |-> "fetch_scheduler", endpoint |-> endpoint,
                         url |-> SchedulerUrl(baseURLScheduler, endpoint)]
        /\ reqs' = <<Req("scheduler", "direct", st)>>
        /\ result' = IF st = "ok" THEN View(<<>>) ELSE Raised("HTTPError")
    /\ op' = "fetch"
    /\ UNCHANGED <<fields, obj, scenResp, pc, args, locals>>

\* fetch_DO(endpoint)
FetchDO ==
    /\ obj = "ready" /\ pc = "idle"
    /\ \E endpoint \in StrUpTo(MaxStr), st \in HttpStatus :
        /\ lastFetch' = [fn |-> "fetch_DO", endpoint |-> endpoint,
                         url |-> DOUrl(baseURL, endpoint)]
        /\ reqs' = <<Req("DO", "direct", st)>>
        /\ result' = IF st = "ok" THEN View(<<>>) ELSE Raised("HTTPError")
    /\ op' = "fetch"
    /\ UNCHANGED <<fields, obj, scenResp, pc, args, locals>>

\* a scenario answer that resolves
GoodResponses ==
    {[http |-> "ok", scenarios |-> <<[id |-> <<1>>, dataTemplateId |-> <<d>>]>>] :
        d \in 1..MaxId}

ConstructUrl == ConstructWith(StrUpTo(MaxStr), StrUpTo(MaxStr), BOOLEAN, GoodResponses)

NextUrl == ConstructUrl \/ FetchScheduler \/ FetchDO

SpecUrl == Init /\ [][NextUrl]_vars

(***************************************************************************)
(* Calls and their end.                                                    *)
(***************************************************************************)
\* a call starts: its locals are fresh and it has issued no request yet
Enter(name, a, list) ==
    /\ obj = "ready" /\ pc = "idle"
    /\ op' = name
    /\ args' = a
    /\ reqs' = <<>>
    /\ result' = NoResult
    /\ lastFetch' = NoFetch
    /\ plannedOrders' = NoneDF
    /\ scheduledOrder' = NoneDF
    /\ data' = <<>>
    /\ merged_df' = <<>>
    /\ tables' = <<>>
    /\ orderNumbers' = list
    /\ batchIdx' = 0
    /\ orders' = <<>>
    /\ doOrders' = <<>>

\* the call ends: a return value or a raised exception reaches the caller
Return(res) ==
    /\ op' = op
    /\ pc' = "idle"
    /\ result' = res

\* a variant of the operator below that swallows the failure and goes on
IgnoreStatus(r) ==
    /\ reqs' = Append(reqs, r)
    /\ UNCHANGED <<op, pc, result>>

\* response.raise_for_status() on a non-success status: the exception leaves
\* the call with nothing caught on the way
RaiseForStatus(r) ==
    /\ reqs' = Append(reqs, r)
    /\ Return(Raised("HTTPError"))

(***************************************************************************)
(* Stage A: _scheduler_get_planned_order.                                  *)
(***************************************************************************)
Statuses == {"IN_PROGRESS", "COMPLETED"}

\* the order numbers (externalId) of the scheduling service's orders
OrderNos == {1, 2}

\* the statuses excludeCompleted drops
ExcludedStatuses == {"COMPLETED", "SUSPENDED", "CANCELLED", "READY", "Complete"}

\* the orderItems lists of an order, as the item ids: the items are those of
\* a catalogue, where the id of an item fixes its other fields
ItemLists == {<<>>, <<1>>, <<2, 1>>}

\* item["quantity"]
ItemQuantity(i) == 10 * i

\* item["quantityUnitOfMeasure"]
ItemUOM(i) == IF i = 1 THEN "kg" ELSE "ea"

\* item["operationsDefinitionClass"]: the product code, " - ", a description
ItemClass(i) == <<"P">> \o Str(i) \o <<" ", "-", " ", "x", " ", "-", " ", "y">>

\* text.split(' - ')[0]: the text before the first " - ", all of it without one
BeforeDelimiter(text) ==
    LET at == {i \in 1..(Len(text) - 2) :
                  text[i] = " " /\ text[i + 1] = "-" /\ text[i + 2] = " "}
    IN  IF at = {} THEN text
        ELSE SubSeq(text, 1, (CHOOSE i \in at : \A j \in at : i <= j) - 1)

\* the priority codes an order is answered with: null or a number
PriorityVals == {<<>>} \cup {<<p>> : p \in 0..MaxPriority}

\* a variant of the operator below that labels every unknown code Low
PriorityLabelLowDefault(p) ==
    IF p = <<1>> THEN "High" ELSE IF p = <<2>> THEN "Medium" ELSE "Low"

\* self._scheduler_priority_map.get(x, '')
PriorityLabel(p) ==
    IF p = <<1>> THEN "High"
    ELSE IF p = <<2>> THEN "Medium"
    ELSE IF p = <<3>> THEN "Low"
    ELSE ""

RawOrdersWith(Nos, Priorities) ==
    [externalId : Nos, status : Statuses, orderItems : ItemLists, priority : Priorities]

RawOrders == RawOrdersWith(OrderNos, {<<2>>})

\* the answers of getOrdersForScenario: null (<<>>) or a list of orders
OrderResponses ==
    {<<>>} \cup {<<l>> : l \in UNION {[1..k -> RawOrders] : k \in 0..MaxOrders}}

ExcludeItemsArgs == {{}, {<<"P", "1">>}}

\* the row Stage A derives from the k-th order of the answer
PlannedRow(o, k) ==
    [id |-> k, orderNumber |-> o.externalId, status |-> o.status,
     orderItems |-> o.orderItems, priority |-> PriorityLabel(o.priority),
     orderItemsId |-> o.orderItems[1],
     orderedQuantity |-> ItemQuantity(o.orderItems[1]),
     orderUOM |-> ItemUOM(o.orderItems[1]),
     ProductCode |-> BeforeDelimiter(ItemClass(o.orderItems[1]))]

\* lines 300-304: the two optional filters
KeepPlanned(row, a) ==
    /\ (a.excludeCompleted => row.status \notin ExcludedStatuses)
    /\ row.ProductCode \notin a.excludeItems

\* lines 282-308 on a non-empty answer whose orders all have items
StageA(list, a) ==
    SelectSeq([k \in 1..Len(list) |-> PlannedRow(list[k], k)],
              LAMBDA row : KeepPlanned(row, a))

CallOrders ==
    /\ \E b \in BOOLEAN, x \in ExcludeItemsArgs :
        Enter("orders", [excludeCompleted |-> b, excludeItems |-> x], <<>>)
    /\ pc' = "planned"
    /\ UNCHANGED <<fields, obj, scenResp>>

\* what _scheduler_get_planned_order does with the answer of its query:
\* it raises, returns None, or returns the frame of Stage A
PlannedOutcome(st, resp, a) ==
    IF st = "fail" THEN
        [kind |-> "raise", err |-> "HTTPError", rows |-> <<>>]
    ELSE IF resp = <<>> THEN
        \* data == None: return None
        [kind |-> "None", err |-> "none", rows |-> <<>>]
    ELSE IF Len(resp[1]) = 0 THEN
        \* data['status'] of a frame without columns
        [kind |-> "raise", err |-> "KeyError", rows |-> <<>>]
    ELSE IF \A k \in 1..Len(resp[1]) : Len(resp[1][k].orderItems) = 0 THEN
        \* line 287: a column of None does not cast to np.int64
        [kind |-> "raise", err |-> "TypeError", rows |-> <<>>]
    ELSE IF \E k \in 1..Len(resp[1]) : Len(resp[1][k].orderItems) = 0 THEN
        \* line 287: a NaN among the first item ids does not cast to np.int64
        [kind |-> "raise", err |-> "ValueError", rows |-> <<>>]
    ELSE
        [kind |-> "frame", err |-> "none", rows |-> StageA(resp[1], a)]

\* _scheduler_get_planned_order(excludeCompleted, excludeItems)
FetchPlanned ==
    /\ op = "orders" /\ pc = "planned"
    /\ \E st \in HttpStatus, resp \in OrderResponses :
        LET r == GraphReq("orders", st, st = "ok" /\ resp = <<>>)
            out == PlannedOutcome(st, resp, args)
        IN  IF st = "fail" THEN
                RaiseForStatus(r) /\ UNCHANGED plannedOrders
            ELSE IF out.kind = "raise" THEN
                /\ reqs' = Append(reqs, r)
                /\ Return(Raised(out.err))
                /\ UNCHANGED plannedOrders
            ELSE
                /\ reqs' = Append(reqs, r)
                /\ plannedOrders' = IF out.kind = "None" THEN NoneDF ELSE DF(out.rows)
                /\ pc' = "allocations"
                /\ UNCHANGED <<op, result>>
    /\ UNCHANGED <<fields, obj, scenResp, args, lastFetch, scheduledOrder, data,
                   merged_df, tables, orderNumbers, batchIdx, orders, doOrders>>

(***************************************************************************)
(* Stage B: _scheduler_get_scheduled_order.                                *)
(***************************************************************************)
\* the k-th allocation of an answer starts k seconds after the epoch
RawAllocs(k) == [orderItemId : 1..2, start : {1000 * k}]

AllocLists ==
    UNION {{l \in [1..n -> UNION {RawAllocs(k) : k \in 1..n}] :
               \A k \in 1..n : l[k].start = 1000 * k} : n \in 0..MaxAllocs}

\* the answers of getAllocations.allocations: null (<<>>) or a list
AllocResponses == {<<>>} \cup {<<l>> : l \in AllocLists}

\* the answers of the equipments query: null, no equipment, some equipment
EquipmentResponses == {"null", "empty", "rows"}

\* lines 339-353 for one allocation
ScheduledRow(al) == [orderItemId |-> al.orderItemId, StartDateTime |-> al.start \div 1000]

\* lines 330-335
FetchAllocations ==
    /\ op = "orders" /\ pc = "allocations"
    /\ \E st \in HttpStatus, resp \in AllocResponses :
        LET r == GraphReq("getAllocations", st, st = "ok" /\ resp = <<>>) IN
        IF st = "fail" THEN
            RaiseForStatus(r) /\ UNCHANGED <<scheduledOrder, data>>
        ELSE IF resp = <<>> THEN
            \* data == None: return None, before the equipment is asked for
            /\ reqs' = Append(reqs, r)
            /\ scheduledOrder' = NoneDF
            /\ pc' = "merge"
            /\ UNCHANGED <<op, result, data>>
        ELSE
            /\ reqs' = Append(reqs, r)
            /\ data' = resp[1]
            /\ pc' = "equipment"
            /\ UNCHANGED <<op, result, scheduledOrder>>
    /\ UNCHANGED <<fields, obj, scenResp, args, lastFetch, plannedOrders, merged_df, tables,
                   orderNumbers, batchIdx, orders, doOrders>>

\* lines 337-353, _scheduler_get_equipment included
FetchEquipment ==
    /\ op = "orders" /\ pc = "equipment"
    /\ \E st \in HttpStatus, resp \in EquipmentResponses :
        LET r == GraphReq("equipments", st, st = "ok" /\ resp = "null") IN
        IF st = "fail" THEN
            RaiseForStatus(r) /\ UNCHANGED scheduledOrder
        ELSE IF resp = "empty" THEN
            \* sort_values(by="externalId") of a frame without columns
            /\ reqs' = Append(reqs, r)
            /\ Return(Raised("KeyError"))
            /\ UNCHANGED scheduledOrder
        ELSE IF Len(data) = 0 THEN
            \* data["start"] of a frame without columns
            /\ reqs' = Append(reqs, r)
            /\ Return(Raised("KeyError"))
            /\ UNCHANGED scheduledOrder
        ELSE IF resp = "null" THEN
            \* equipment[...] with equipment None, for the first allocation
            /\ reqs' = Append(reqs, r)
            /\ Return(Raised("TypeError"))
            /\ UNCHANGED scheduledOrder
        ELSE
            /\ reqs' = Append(reqs, r)
            /\ scheduledOrder' = DF([k \in 1..Len(data) |-> ScheduledRow(data[k])])
            /\ pc' = "merge"
            /\ UNCHANGED <<op, result>>
    /\ UNCHANGED <<fields, obj, scenResp, args, lastFetch, plannedOrders, data, merged_df, tables,
                   orderNumbers, batchIdx, orders, doOrders>>

(***************************************************************************)
(* Stage C: merge, completion lookup, overlay.                             *)
(***************************************************************************)
MergedRow(p, s) ==
    [id |-> p.id, orderNumber |-> p.orderNumber, status |-> p.status,
     orderItems |-> p.orderItems, priority |-> p.priority,
     orderItemsId |-> p.orderItemsId, orderedQuantity |-> p.orderedQuantity,
     orderUOM |-> p.orderUOM, ProductCode |-> p.ProductCode,
     orderItemId |-> s.orderItemId, StartDateTime |-> s.StartDateTime]

\* a variant of the operator below that keeps one allocation for each order
MatchesFirstOnly(p, right) ==
    LET m == SelectSeq(right, LAMBDA s : s.orderItemId = p.orderItemsId)
    IN  IF Len(m) = 0 THEN m ELSE <<m[1]>>

\* the rows of the right frame a left row joins with
Matches(p, right) == SelectSeq(right, LAMBDA s : s.orderItemId = p.orderItemsId)

RECURSIVE InnerJoin(_, _)
\* left.merge(right, how="inner", left_on="orderItemsId", right_on="orderItemId")
InnerJoin(left, right) ==
    IF Len(left) = 0 THEN <<>>
    ELSE LET m == Matches(Head(left), right)
         IN  [k \in 1..Len(m) |-> MergedRow(Head(left), m[k])] \o InnerJoin(Tail(left), right)

InSeq(s, x) == \E i \in 1..Len(s) : s[i] = x

RECURSIVE Unique(_)
\* Series.unique(): the values in order of first appearance, computed by halves
Unique(s) ==
    IF Len(s) <= 1 THEN s
    ELSE LET h == Len(s) \div 2
             a == Unique(SubSeq(s, 1, h))
             b == Unique(SubSeq(s, h + 1, Len(s)))
         IN  a \o SelectSeq(b, LAMBDA x : ~InSeq(a, x))

\* lines 498-502, up to the call of _do_get_completed_orders
Merge ==
    /\ op = "orders" /\ pc = "merge"
    /\ IF plannedOrders.isNone THEN
           \* None has no attribute merge
           /\ Return(Raised("AttributeError"))
           /\ UNCHANGED <<merged_df, orderNumbers>>
       ELSE IF scheduledOrder.isNone THEN
           \* merge refuses a right operand that is None
           /\ Return(Raised("TypeError"))
           /\ UNCHANGED <<merged_df, orderNumbers>>
       ELSE
           LET m == InnerJoin(plannedOrders.rows, scheduledOrder.rows) IN
           /\ merged_df' = m
           /\ orderNumbers' = Unique([k \in 1..Len(m) |-> m[k].orderNumber])
           /\ pc' = "do_batch"
           /\ UNCHANGED <<op, result>>
    /\ UNCHANGED <<fields, obj, scenResp, args, reqs, lastFetch, plannedOrders,
                   scheduledOrder, data, tables, batchIdx, orders, doOrders>>

(***************************************************************************)
(* _do_get_completed_orders.                                               *)
(***************************************************************************)
BatchSize == 80

\* len(range(0, n, 80))
NumBatches(n) == (n + BatchSize - 1) \div BatchSize

\* a variant of the operator below whose slices are one element too long
BatchOverlapping(list, k) ==
    SubSeq(list, (k - 1) * BatchSize + 1,
           IF k * BatchSize + 1 < Len(list) THEN k * BatchSize + 1 ELSE Len(list))

\* orderNumbers[i:i + 80] for the k-th i of range(0, len(orderNumbers), 80)
Batch(list, k) ==
    SubSeq(list, (k - 1) * BatchSize + 1,
           IF k * BatchSize < Len(list) THEN k * BatchSize ELSE Len(list))

\* the members of a set of order numbers, in ascending order
SortedList(S) ==
    IF S = {} THEN <<>>
    ELSE LET top == CHOOSE x \in S : \A y \in S : y <= x
         IN  SelectSeq([i \in 1..top |-> i], LAMBDA x : x \in S)

\* list(set(orders)): the order of the list is unspecified and no caller reads
\* it; the model lists the set in ascending order
ListOfSet(l) == SortedList({l[i] : i \in 1..Len(l)})

\* one turn of the loop of lines 368-376; the execution service answers the
\* order numbers of the batch that it holds COMPLETED, one per instance asked
DoBatchWith(CompletedSets) ==
    /\ pc = "do_batch"
    /\ batchIdx < NumBatches(Len(orderNumbers))
    /\ \E st \in HttpStatus, done \in CompletedSets :
        LET batch == Batch(orderNumbers, batchIdx + 1)
            endpoint == EpOrderInstances \o Join(batch)
            returned == SelectSeq(batch, LAMBDA x : x \in done)
        IN  /\ lastFetch' = [fn |-> "fetch_DO", endpoint |-> endpoint,
                             url |-> DOUrl(baseURL, endpoint)]
            /\ IF st = "fail" THEN
                   /\ RaiseForStatus(BatchReq(batch, st, <<>>))
                   /\ UNCHANGED <<batchIdx, orders>>
               ELSE
                   /\ reqs' = Append(reqs, BatchReq(batch, st, returned))
                   /\ batchIdx' = batchIdx + 1
                   \* an answer without rows has no orderNumber column
                   /\ orders' = IF Len(returned) > 0 THEN orders \o Unique(returned)
                                ELSE orders
                   /\ UNCHANGED <<op, pc, result>>
    /\ UNCHANGED <<fields, obj, scenResp, args, plannedOrders, scheduledOrder, data,
                   merged_df, tables, orderNumbers, doOrders>>

\* line 378, and the return to the caller
DoReturn ==
    /\ pc = "do_batch"
    /\ batchIdx = NumBatches(Len(orderNumbers))
    /\ doOrders' = ListOfSet(orders)
    /\ IF op = "orders" THEN
           pc' = "overlay" /\ UNCHANGED <<op, result>>
       ELSE
           Return([kind |-> "list", rows |-> ListOfSet(orders), err |-> "none"])
    /\ UNCHANGED <<fields, obj, scenResp, args, reqs, lastFetch, plannedOrders,
                   scheduledOrder, data, merged_df, tables, orderNumbers, batchIdx, orders>>

DoBatch == op = "orders" /\ DoBatchWith(SUBSET OrderNos)

\* a variant of the operator below that tests the order id, not the number
OverlayRowById(row, completed) ==
    IF InSeq(completed, row.id) THEN [row EXCEPT !.status = "COMPLETED"] ELSE row

\* a variant of the operator below that also resets the rows not completed
OverlayRowBothWays(row, completed) ==
    [row EXCEPT !.status = IF InSeq(completed, row.orderNumber) THEN "COMPLETED"
                           ELSE "IN_PROGRESS"]

\* line 504
OverlayRow(row, completed) ==
    IF InSeq(completed, row.orderNumber) THEN [row EXCEPT !.status = "COMPLETED"] ELSE row

Overlay ==
    /\ op = "orders" /\ pc = "overlay"
    /\ merged_df' = [k \in 1..Len(merged_df) |-> OverlayRow(merged_df[k], doOrders)]
    /\ pc' = "finish"
    /\ UNCHANGED <<fields, obj, scenResp, op, args, reqs, lastFetch, result, plannedOrders,
                   scheduledOrder, data, tables, orderNumbers, batchIdx, orders, doOrders>>

\* lines 506-510: the join columns dropped, the others renamed
ViewRow(row) ==
    [Id |-> row.id, OrderNumber |-> row.orderNumber, Status |-> row.status,
     OrderItems |-> row.orderItems, Priority |-> row.priority,
     OrderedQuantity |-> row.orderedQuantity, OrderUOM |-> row.orderUOM,
     ProductCode |-> row.ProductCode, StartDateTime |-> row.StartDateTime]

Finish ==
    /\ op = "orders" /\ pc = "finish"
    /\ Return(View([k \in 1..Len(merged_df) |-> ViewRow(merged_df[k])]))
    /\ UNCHANGED <<fields, obj, scenResp, args, reqs, lastFetch, locals>>

(***************************************************************************)
(* The tables behind the BOM and materials views.  Operation, route,       *)
(* segment and material codes are natural numbers below 10; a nullable     *)
(* column holds <<>> for null (None, NaN, <NA>) and <<v>> for the value v. *)
(***************************************************************************)
\* a cell of a rate or fixedDuration column: a number, null, a text, or NaN
Num(n) == [t |-> "num", v |-> n, s |-> <<>>]
Null == [t |-> "null", v |-> 0, s |-> <<>>]
Text(s) == [t |-> "str", v |-> 0, s |-> s]
NaN == [t |-> "nan", v |-> 0, s |-> <<>>]

\* series.replace(["NaN", "null", "", np.nan], 0): np.nan stands for every null
ReplaceMissing(x) ==
    IF \/ x.t \in {"null", "nan"}
       \/ x.t = "str" /\ x.s \in {<<"N", "a", "N">>, <<"n", "u", "l", "l">>, <<>>}
    THEN Num(0)
    ELSE x

IsDigits(s) == Len(s) > 0 /\ \A i \in 1..Len(s) : \E d \in 0..9 : s[i] = Digit(d)

RECURSIVE ParseNat(_)
\* the number a text of digits writes
ParseNat(s) ==
    IF Len(s) = 0 THEN 0
    ELSE 10 * ParseNat(SubSeq(s, 1, Len(s) - 1))
         + (CHOOSE d \in 0..9 : s[Len(s)] = Digit(d))

\* pd.to_numeric(series, errors='coerce'): a number stays, a text that writes
\* a number is parsed, anything else becomes NaN
ToNumeric(x) ==
    IF x.t = "num" THEN x
    ELSE IF x.t = "str" /\ IsDigits(x.s) THEN Num(ParseNat(x.s))
    ELSE NaN

\* series * k
Times(x, k) == IF x.t = "num" THEN Num(x.v * k) ELSE NaN

\* extract(x, field): the field of a nested object, null for a null object
extract(x, field) == IF x = <<>> THEN <<>> ELSE <<x[1][field]>>

OpCodes == {1, 2}

\* the rows of the frames pd.DataFrame makes of the answers
OperationRow(c, k) ==
    [operationCode |-> <<c>>, externalId |-> <<k>>, description |-> <<"operation">>,
     quantity |-> <<1>>]

RouteRow(c, r) == [operationCode |-> <<c>>, routeCode |-> <<r>>]

MaterialDefinitionRow(e, g) ==
    [externalId |-> <<e>>, description |-> <<"material">>, materialGroup |-> g]

SegmentRow(c, r, g, rate, fixedDuration) ==
    [operationCode |-> <<c>>, routeCode |-> <<r>>, segmentCode |-> <<g>>,
     route |-> <<[routeCode |-> r]>>, rate |-> rate, fixedDuration |-> fixedDuration]

SegmentEquipmentRow(c, r, g, class) ==
    [operationCode |-> <<c>>, routeCode |-> <<r>>, segmentCode |-> <<g>>,
     equipmentClass |-> class]

SegmentMaterialRow(c, r, g, m) ==
    [operationCode |-> <<c>>, routeCode |-> <<r>>, segmentCode |-> <<g>>,
     materialDefinition |-> <<[externalId |-> m, description |-> "used"]>>,
     quantity |-> <<4>>, quantityUnitOfMeasure |-> <<"kg">>,
     materialUse |-> <<"Consumed">>]

MaterialPropertyRow(m, name, value) ==
    [materialDefinition |-> <<[externalId |-> m]>>, externalId |-> name, value |-> value]

\* the cells a rate column is answered with
RateCells ==
    {Num(2), Null, Text(<<"N", "a", "N">>), Text(<<"n", "u", "l", "l">>), Text(<<>>),
     Text(Str(15)), Text(<<"a", "b", "c">>)}

\* the cells a fixedDuration column is answered with
DurationCells == {Num(3), Null, Text(<<"a", "b", "c">>)}

Mixer == <<[externalId |-> "MX", description |-> "Mixer"]>>

\* the keys of self._schedulerEndpoints that the views fetch
TableNames ==
    {"operations", "routes", "material_definitions", "materials_properties", "segments",
     "segment_equipments", "segment_materials"}

\* the answers of the scheduler endpoints: each table empty, with rows that
\* match the rows before them in the chain, and with rows that match none
BomTables ==
    [name \in TableNames |->
    CASE name = "operations" ->
            UNION {{[k \in 1..n |-> OperationRow(codes[k], k)] : codes \in [1..n -> OpCodes]} :
                      n \in 0..MaxOps}
      [] name = "routes" ->
            UNION {[1..n -> {RouteRow(1, 1), RouteRow(1, 2)}] : n \in 0..MaxRoutes}
      [] name = "material_definitions" ->
            {<<>>,
             <<MaterialDefinitionRow(1, <<[externalId |-> "G"]>>)>>,
             <<MaterialDefinitionRow(3, <<>>)>>}
      [] name = "materials_properties" ->
            {<<>>,
             <<MaterialPropertyRow(1, "colour", "red")>>,
             <<MaterialPropertyRow(1, "colour", "red"), MaterialPropertyRow(1, "colour", "blue")>>}
      [] name = "segments" ->
            {<<>>} \cup {<<SegmentRow(1, 1, 1, x, y)>> : x \in RateCells, y \in DurationCells}
      [] name = "segment_equipments" ->
            {<<>>,
             <<SegmentEquipmentRow(1, 1, 1, Mixer), SegmentEquipmentRow(1, 1, 1, <<>>)>>,
             <<SegmentEquipmentRow(1, 2, 1, Mixer)>>}
      [] name = "segment_materials" ->
            {<<>>,
             <<SegmentMaterialRow(1, 1, 1, 2), SegmentMaterialRow(1, 1, 1, 1)>>,
             <<SegmentMaterialRow(2, 1, 1, 1)>>}]

\* one answer of each endpoint, with every table matched by the next
PlainTables ==
    [name \in TableNames |->
    CASE name = "operations" -> {<<OperationRow(1, 1), OperationRow(2, 2)>>}
      [] name = "routes" -> {<<RouteRow(1, 1)>>}
      [] name = "material_definitions" ->
            {<<MaterialDefinitionRow(1, <<[externalId |-> "G"]>>)>>}
      [] name = "materials_properties" -> {<<MaterialPropertyRow(1, "colour", "red")>>}
      [] name = "segments" -> {<<SegmentRow(1, 1, 1, Num(2), Num(3))>>}
      [] name = "segment_equipments" -> {<<SegmentEquipmentRow(1, 1, 1, Mixer)>>}
      [] name = "segment_materials" -> {<<SegmentMaterialRow(1, 1, 1, 1)>>}]

\* the frame fetched from an endpoint in this call; no rows when none was
Table(t, name) ==
    LET at == {i \in 1..Len(t) : t[i].name = name}
    IN  IF at = {} THEN <<>> ELSE t[CHOOSE i \in at : \A j \in at : j <= i].rows

\* series.fillna(''), and replace of the null forms by ''
FillNa(c) == IF c = <<>> THEN <<"">> ELSE c

\* _scheduler_get_materials without properties: lines 185-192
MaterialsFrame(rows) ==
    [k \in 1..Len(rows) |->
        [externalId |-> FillNa(rows[k].externalId),
         description |-> FillNa(rows[k].description),
         materialGroup |-> FillNa(extract(rows[k].materialGroup, "externalId"))]]

\* the property names of a properties table: the columns of its pivot
PropertyNames(props) == {props[i].externalId : i \in 1..Len(props)}

\* pivot refuses two values for one material and property name
PivotClash(props) ==
    \E i, j \in 1..Len(props) :
        /\ i # j
        /\ props[i].materialDefinition = props[j].materialDefinition
        /\ props[i].externalId = props[j].externalId

\* lines 194-201: the pivoted properties joined to the materials, '' for none
MaterialsWithProperties(frame, props) ==
    [k \in 1..Len(frame) |->
        [externalId |-> frame[k].externalId,
         description |-> frame[k].description,
         materialGroup |-> frame[k].materialGroup,
         properties |->
            [n \in PropertyNames(props) |->
                LET at == {i \in 1..Len(props) :
                              /\ props[i].externalId = n
                              /\ extract(props[i].materialDefinition, "externalId")
                                    = frame[k].externalId}
                IN  IF at = {} THEN "" ELSE props[CHOOSE i \in at : TRUE].value]]]

RECURSIVE Flatten(_)
Flatten(ss) == IF Len(ss) = 0 THEN <<>> ELSE Head(ss) \o Flatten(Tail(ss))

\* a variant of the operator below for how="inner": no row for no match
MatchedOnly(rows, nulls) == rows

\* how="left": the matching rows of the right frame, or one row of nulls
Matched(rows, nulls) == IF Len(rows) = 0 THEN <<nulls>> ELSE rows

\* the row of a merge: the columns of both rows, a column of both with the
\* value of the left
MergedRowOf(l, r) ==
    [f \in (DOMAIN l) \cup (DOMAIN r) |-> IF f \in DOMAIN l THEN l[f] ELSE r[f]]

\* left.merge(right, how="left", left_on=..., right_on=...): on pairs the key
\* columns; the right frame has its columns under the names they get in the
\* result, and a column of both frames keeps the value of the left
LeftJoin(left, right, on, nulls) ==
    LET Match(l, r) == \A i \in 1..Len(on) : l[on[i][1]] = r[on[i][2]]
        Rows(l) == Matched(SelectSeq(right, LAMBDA r : Match(l, r)), nulls)
    IN  Flatten([i \in 1..Len(left) |->
                    [k \in 1..Len(Rows(left[i])) |-> MergedRowOf(left[i], Rows(left[i])[k])]])

\* the columns of materials_df under suffixes=('', '_material')
MaterialColumns(frame) ==
    [k \in 1..Len(frame) |->
        [externalId_material |-> frame[k].externalId,
         description_material |-> frame[k].description,
         materialGroup |-> frame[k].materialGroup]]

\* the columns of segment_materials_df under suffixes=('', '_segmentMaterial')
SegmentMaterialColumns(frame) ==
    [k \in 1..Len(frame) |->
        [operationCode |-> frame[k].operationCode, routeCode |-> frame[k].routeCode,
         segmentCode |-> frame[k].segmentCode,
         materialDefinition |-> frame[k].materialDefinition,
         quantity_segmentMaterial |-> frame[k].quantity,
         quantityUnitOfMeasure |-> frame[k].quantityUnitOfMeasure,
         materialUse |-> frame[k].materialUse]]

NoRoute == [routeCode |-> <<>>]

NoMaterial ==
    [externalId_material |-> <<>>, description_material |-> <<>>, materialGroup |-> <<>>]

NoSegment == [segmentCode |-> <<>>, route |-> <<>>, rate |-> NaN, fixedDuration |-> NaN]

NoEquipment == [equipmentClass |-> <<>>]

NoSegmentMaterial ==
    [materialDefinition |-> <<>>, quantity_segmentMaterial |-> <<>>,
     quantityUnitOfMeasure |-> <<>>, materialUse |-> <<>>]

SegmentKey ==
    <<<<"operationCode", "operationCode">>, <<"routeCode", "routeCode">>,
      <<"segmentCode", "segmentCode">>>>

\* lines 405-410: the operations frame and the result of each of the merges
BomChain(t) ==
    LET j0 == Table(t, "operations")
        j1 == LeftJoin(j0, Table(t, "routes"),
                       <<<<"operationCode", "operationCode">>>>, NoRoute)
        j2 == LeftJoin(j1, MaterialColumns(MaterialsFrame(Table(t, "material_definitions"))),
                       <<<<"operationCode", "externalId_material">>>>, NoMaterial)
        j3 == LeftJoin(j2, Table(t, "segments"), SubSeq(SegmentKey, 1, 2), NoSegment)
        j4 == LeftJoin(j3, Table(t, "segment_equipments"), SegmentKey, NoEquipment)
        j5 == LeftJoin(j4, SegmentMaterialColumns(Table(t, "segment_materials")),
                       SegmentKey, NoSegmentMaterial)
    IN  <<j0, j1, j2, j3, j4, j5>>

\* lines 417-424
BomDerived(row) ==
    LET rate == ToNumeric(ReplaceMissing(row.rate)) IN
    MergedRowOf(
    [route |-> extract(row.route, "routeCode"),
     equipmentClassId |-> extract(row.equipmentClass, "externalId"),
     equipmentClass |-> FillNa(extract(row.equipmentClass, "description")),
     materialId |-> extract(row.materialDefinition, "externalId"),
     material |-> extract(row.materialDefinition, "description"),
     fixedDuration |-> ToNumeric(ReplaceMissing(row.fixedDuration)),
     rate |-> rate,
     rateHour |-> Times(Times(rate, 60), 60)], row)

\* lines 447-465: the selected columns under their names in the view
BomViewRow(row) ==
    [Quantity |-> row.quantity, OperationCode |-> row.operationCode,
     OperationExternalID |-> row.externalId, OperationDescription |-> row.description,
     OperationMaterialGroup |-> row.materialGroup, Segment |-> row.segmentCode,
     Route |-> row.route, EquipmentClassID |-> row.equipmentClassId,
     EquipmentClass |-> row.equipmentClass, MaterialCode |-> row.materialId,
     MaterialDescription |-> row.material,
     MaterialQuantity |-> row.quantity_segmentMaterial,
     MaterialUnitOfMeasure |-> row.quantityUnitOfMeasure, MaterialUse |-> row.materialUse,
     FixedDuration |-> row.fixedDuration, Rate |-> row.rate, RatePerHour |-> row.rateHour]

\* the place of a cell in an ascending sort, nulls last
NullsLast(c) == IF c = <<>> THEN 10 ELSE c[1]

\* line 465: by=["Operation Code", "Segment", "Route", "Material Code"]
SortKey(v) ==
    <<NullsLast(v.OperationCode), NullsLast(v.Segment), NullsLast(v.Route),
      NullsLast(v.MaterialCode)>>

KeyLess(a, b) ==
    \E i \in 1..Len(a) : a[i] < b[i] /\ \A j \in 1..(i - 1) : a[j] = b[j]

\* sort_values: rows of equal keys keep their order
SortValues(rows) ==
    LET Before(j, i) ==
            \/ KeyLess(SortKey(rows[j]), SortKey(rows[i]))
            \/ SortKey(rows[j]) = SortKey(rows[i]) /\ j < i
        Place(i) == 1 + Cardinality({j \in 1..Len(rows) : Before(j, i)})
    IN  [p \in 1..Len(rows) |-> rows[CHOOSE i \in 1..Len(rows) : Place(i) = p]]

\* lines 417-465 on the result of the merges
BomView(t) ==
    LET j == BomChain(t)[6] IN
    SortValues([k \in 1..Len(j) |-> BomViewRow(BomDerived(j[k]))])

\* the endpoints whose frame is indexed by a column before any merge
\* (lines 185 and 205): a frame of no rows has no column
IndexedOnFetch == {"material_definitions", "materials_properties"}

(***************************************************************************)
(* scheduler_get_bom_setup and scheduler_get_materials: their fetches.     *)
(* The rows of these two views are not modelled.                           *)
(***************************************************************************)
\* a variant of the list below that does not ask for the material definitions
BomEndpointsCached ==
    <<[name |-> "operations", path |-> EpOperations],
      [name |-> "routes", path |-> EpRoutes],
      [name |-> "segments", path |-> EpSegments],
      [name |-> "segment_equipments", path |-> EpSegmentEquipments],
      [name |-> "segment_materials", path |-> EpSegmentMaterials]>>

\* lines 398-403, in order
BomEndpoints ==
    <<[name |-> "operations", path |-> EpOperations],
      [name |-> "routes", path |-> EpRoutes],
      [name |-> "material_definitions", path |-> EpMaterialDefinitions],
      [name |-> "segments", path |-> EpSegments],
      [name |-> "segment_equipments", path |-> EpSegmentEquipments],
      [name |-> "segment_materials", path |-> EpSegmentMaterials]>>

\* lines 184 and 195
MaterialsEndpoints(includeProperties) ==
    IF includeProperties
    THEN <<[name |-> "material_definitions", path |-> EpMaterialDefinitions],
           [name |-> "materials_properties", path |-> EpMaterialsProperties]>>
    ELSE <<[name |-> "material_definitions", path |-> EpMaterialDefinitions]>>

CallBom ==
    /\ Enter("bom", [endpoints |-> BomEndpoints], <<>>)
    /\ pc' = "fetch"
    /\ UNCHANGED <<fields, obj, scenResp>>

CallMaterials ==
    /\ \E b \in BOOLEAN : Enter("materials", [endpoints |-> MaterialsEndpoints(b)], <<>>)
    /\ pc' = "fetch"
    /\ UNCHANGED <<fields, obj, scenResp>>

\* what the view in progress does once the last of its frames is fetched
TablesOutcome(name, t) ==
    IF name = "materials" THEN
        IF Len(t) = 1 THEN View(MaterialsFrame(Table(t, "material_definitions")))
        ELSE IF PivotClash(Table(t, "materials_properties")) THEN Raised("ValueError")
        ELSE View(MaterialsWithProperties(MaterialsFrame(Table(t, "material_definitions")),
                                          Table(t, "materials_properties")))
    ELSE IF \E i \in 1..Len(t) : Len(t[i].rows) = 0 THEN
        \* merge finds no key column in a frame of no rows
        Raised("KeyError")
    ELSE View(BomView(t))

\* the next fetch_scheduler of the view in progress; the view is returned
\* after the last one
FetchTableWith(Tables) ==
    /\ op \in {"bom", "materials"} /\ pc = "fetch"
    /\ \E st \in HttpStatus :
        LET e == args.endpoints[Len(reqs) + 1] IN
        \E rows \in Tables[e.name] :
            LET r == Req("scheduler", e.name, st)
                t == Append(tables, [name |-> e.name, rows |-> rows])
            IN  /\ lastFetch' = [fn |-> "fetch_scheduler", endpoint |-> e.path,
                                 url |-> SchedulerUrl(baseURLScheduler, e.path)]
                /\ IF st = "fail" THEN RaiseForStatus(r) /\ UNCHANGED tables
                   ELSE /\ reqs' = Append(reqs, r)
                        /\ tables' = t
                        /\ IF e.name \in IndexedOnFetch /\ Len(rows) = 0 THEN
                               Return(Raised("KeyError"))
                           ELSE IF Len(t) < Len(args.endpoints) THEN
                               UNCHANGED <<op, pc, result>>
                           ELSE Return(TablesOutcome(op, t))
    /\ UNCHANGED <<fields, obj, scenResp, args, plannedOrders, scheduledOrder, data,
                   merged_df, orderNumbers, batchIdx, orders, doOrders>>

FetchTable == FetchTableWith(PlainTables)

(***************************************************************************)
(* The object's life: construction, then any sequence of exposed calls.    *)
(***************************************************************************)
SiteNames == {<<"a">>}

Construct == ConstructWith(SiteNames, SiteNames, {FALSE}, GoodResponses)

Next ==
    \/ Construct
    \/ CallOrders \/ FetchPlanned \/ FetchAllocations \/ FetchEquipment \/ Merge
    \/ DoBatch \/ DoReturn \/ Overlay \/ Finish
    \/ CallBom \/ CallMaterials \/ FetchTable

Spec == Init /\ [][Next]_vars

(***************************************************************************)
(* Construction under every answer of the scenario query, followed by the  *)
(* calls whose fetches are the paged ones.                                 *)
(***************************************************************************)
ConstructAny == ConstructWith(StrUpTo(1), StrUpTo(1), BOOLEAN, ScenarioResponses)

NextConstruct == ConstructAny \/ CallBom \/ CallMaterials \/ FetchTable

SpecConstruct == Init /\ [][NextConstruct]_vars

(***************************************************************************)
(* _do_get_completed_orders called on its own, on lists long enough for    *)
(* several batches: 1, 2, 3, ... repeating with a period, so that a list   *)
(* has duplicates inside a batch, across batches, or none.                 *)
(***************************************************************************)
InputList(n, period) == [i \in 1..n |-> ((i - 1) % period) + 1]

Periods == {1, DupPeriod, MaxN}

\* what the execution service may hold COMPLETED: nothing, everything, the
\* even order numbers, order number 1
CompletedFamilies == {{}, 1..MaxN, {x \in 1..MaxN : x % 2 = 0}, {1}}

\* one call for each object: the function keeps nothing from call to call
CallCompleted ==
    /\ result.kind = "none"
    /\ \E n \in 0..MaxN, period \in Periods :
        Enter("completed", [n |-> n, period |-> period], InputList(n, period))
    /\ pc' = "do_batch"
    /\ UNCHANGED <<fields, obj, scenResp>>

DoBatchAlone == op = "completed" /\ DoBatchWith(CompletedFamilies)

NextBatch == Construct \/ CallCompleted \/ DoBatchAlone \/ DoReturn

SpecBatch == Init /\ [][NextBatch]_vars

(***************************************************************************)
(* _scheduler_get_planned_order called on its own, on orders of every      *)
(* priority code; the answer is kept in data for the properties.           *)
(***************************************************************************)
PlannedResponses ==
    {<<>>} \cup {<<l>> : l \in UNION {[1..k -> RawOrdersWith({1}, PriorityVals)] :
                                        k \in 0..MaxOrders}}

CallPlanned ==
    /\ \E b \in BOOLEAN, x \in ExcludeItemsArgs :
        Enter("planned", [excludeCompleted |-> b, excludeItems |-> x], <<>>)
    /\ pc' = "planned"
    /\ UNCHANGED <<fields, obj, scenResp>>

GetPlannedOrder ==
    /\ op = "planned" /\ pc = "planned"
    /\ \E st \in HttpStatus, resp \in PlannedResponses :
        LET out == PlannedOutcome(st, resp, args) IN
        /\ reqs' = Append(reqs, GraphReq("orders", st, st = "ok" /\ resp = <<>>))
        /\ data' = IF st = "ok" THEN resp ELSE <<>>
        /\ Return(IF out.kind = "raise" THEN Raised(out.err)
                  ELSE IF out.kind = "None" THEN [kind |-> "None", rows |-> <<>>, err |-> "none"]
                  ELSE View(out.rows))
    /\ UNCHANGED <<fields, obj, scenResp, args, lastFetch, plannedOrders, scheduledOrder,
                   merged_df, tables, orderNumbers, batchIdx, orders, doOrders>>

\* an object of site and tenant "a", resolved to data template 1
ConstructOne ==
    ConstructWith(SiteNames, SiteNames, {FALSE},
                  {[http |-> "ok", scenarios |-> <<[id |-> <<1>>, dataTemplateId |-> <<1>>]>>]})

NextPlanned == ConstructOne \/ CallPlanned \/ GetPlannedOrder

SpecPlanned == Init /\ [][NextPlanned]_vars

(***************************************************************************)
(* The BOM and materials views over tables that are empty, matched and     *)
(* unmatched, with every form of rate and fixedDuration cell.              *)
(***************************************************************************)
FetchTableAny == FetchTableWith(BomTables)

NextBom == ConstructOne \/ CallBom \/ CallMaterials \/ FetchTableAny

SpecBom == Init /\ [][NextBom]_vars

(***************************************************************************)
(* Properties.                                                             *)
(***************************************************************************)
\* the scenario answer yields a strictly positive (data-template id, scenario id)
Yields(r) ==
    /\ r.http = "ok"
    /\ Len(r.scenarios) > 0
    /\ Len(r.scenarios[1].dataTemplateId) > 0
    /\ Len(r.scenarios[1].id) > 0
    /\ r.scenarios[1].dataTemplateId[1] > 0
    /\ r.scenarios[1].id[1] > 0

\* C1: construction ends with a usable object exactly when the scenario
\* answer yields a data-template id > 0 and a scenario id > 0; otherwise it
\* raises and the caller holds no object; and as long as no object is ready
\* the only request ever issued is the scenario query.
ConstructionNeedsResolvedIds ==
    /\ obj # "new" =>
        /\ (obj = "ready") <=> Yields(scenResp[1])
        /\ obj = "failed" => result.kind = "error"
        /\ obj = "ready" =>
            /\ scheduler_data_id = scenResp[1].scenarios[1].dataTemplateId[1]
            /\ scheduler_scenario_id = scenResp[1].scenarios[1].id[1]
            /\ scheduler_data_id > 0 /\ scheduler_scenario_id > 0
    /\ obj # "ready" =>
        /\ pc = "idle" /\ op = "none"
        /\ \A i \in 1..Len(reqs) : reqs[i].name = "scenarios"

\* C1 witness: both ids are answered, the data-template id is 0, and
\* construction raised the configuration error
ConstructionRefusedZeroId ==
    /\ obj = "failed"
    /\ scenResp[1].http = "ok"
    /\ Len(scenResp[1].scenarios) > 0
    /\ scenResp[1].scenarios[1].dataTemplateId = <<0>>
    /\ scenResp[1].scenarios[1].id = <<1>>
    /\ result = Raised("Exception")

\* scheduler_get_orders has returned a view
OrdersDone == pc = "idle" /\ op = "orders" /\ result.kind = "view"

\* the Stage A status of the order a row of the view belongs to
StageAStatus(row) ==
    LET k == CHOOSE j \in 1..Len(plannedOrders.rows) : plannedOrders.rows[j].id = row.Id
    IN  plannedOrders.rows[k].status

\* C2: in the view scheduler_get_orders returns, every row whose order number
\* is in the list the completion lookup returned has Status COMPLETED.
CompletedOverlayApplied ==
    OrdersDone =>
        \A k \in 1..Len(result.rows) :
            InSeq(doOrders, result.rows[k].OrderNumber) =>
                result.rows[k].Status = "COMPLETED"

\* C2 witness: a returned row that Stage A had IN_PROGRESS and the lookup completed
InProgressForcedCompleted ==
    /\ OrdersDone
    /\ \E k \in 1..Len(result.rows) :
        /\ InSeq(doOrders, result.rows[k].OrderNumber)
        /\ StageAStatus(result.rows[k]) = "IN_PROGRESS"
        /\ result.rows[k].Status = "COMPLETED"

\* a row outside the completed list has the status Stage A gave its order
UncompletedKeepStageA ==
    OrdersDone =>
        \A k \in 1..Len(result.rows) :
            ~InSeq(doOrders, result.rows[k].OrderNumber) =>
                result.rows[k].Status = StageAStatus(result.rows[k])

\* from the merge to the return, a step leaves each row's status as it was or
\* makes it COMPLETED, so a COMPLETED row stays COMPLETED
StatusStepOneWay ==
    (op = "orders" /\ pc \in {"do_batch", "overlay", "finish"}) =>
        IF pc' = "idle" THEN
            result'.kind = "view" =>
                /\ Len(result'.rows) = Len(merged_df)
                /\ \A k \in 1..Len(merged_df) :
                    result'.rows[k].Status \in {merged_df[k].status, "COMPLETED"}
        ELSE
            /\ Len(merged_df') = Len(merged_df)
            /\ \A k \in 1..Len(merged_df) :
                merged_df'[k].status \in {merged_df[k].status, "COMPLETED"}

\* C3: the overlay only ever writes COMPLETED: a row whose order number is not
\* in the completed list keeps its Stage A status, and no step of the call
\* after the merge changes a status except to COMPLETED.
OverlayOneDirectional == []UncompletedKeepStageA /\ [][StatusStepOneWay]_vars

\* C3 witness: a view with a row the scheduler had COMPLETED and the lookup did
\* not name, next to a row the overlay made COMPLETED
SchedulerCompletedKept ==
    /\ OrdersDone
    /\ \E k \in 1..Len(result.rows) :
        /\ ~InSeq(doOrders, result.rows[k].OrderNumber)
        /\ StageAStatus(result.rows[k]) = "COMPLETED"
        /\ result.rows[k].Status = "COMPLETED"
    /\ \E k \in 1..Len(result.rows) :
        /\ InSeq(doOrders, result.rows[k].OrderNumber)
        /\ StageAStatus(result.rows[k]) = "IN_PROGRESS"
        /\ result.rows[k].Status = "COMPLETED"

RowsOfOrder(id) == {k \in 1..Len(result.rows) : result.rows[k].Id = id}

AllocsOfItem(item) ==
    {j \in 1..Len(scheduledOrder.rows) : scheduledOrder.rows[j].orderItemId = item}

\* C4: the view has, for every planned order, exactly as many rows as there
\* are allocations whose orderItemId is the order's first item id (none when
\* there is no such allocation), and no other row.
InnerJoinRowCount ==
    OrdersDone =>
        /\ \A i \in 1..Len(plannedOrders.rows) :
            Cardinality(RowsOfOrder(plannedOrders.rows[i].id))
                = Cardinality(AllocsOfItem(plannedOrders.rows[i].orderItems[1]))
        /\ \A k \in 1..Len(result.rows) :
            \E i \in 1..Len(plannedOrders.rows) :
                plannedOrders.rows[i].id = result.rows[k].Id

\* C4 witness: one order with two allocations and two rows, another order
\* with no allocation and no row
TwoAllocationsTwoRows ==
    /\ OrdersDone
    /\ Len(plannedOrders.rows) = 2
    /\ Cardinality(AllocsOfItem(plannedOrders.rows[1].orderItems[1])) = 2
    /\ Cardinality(RowsOfOrder(plannedOrders.rows[1].id)) = 2
    /\ Cardinality(AllocsOfItem(plannedOrders.rows[2].orderItems[1])) = 0
    /\ Cardinality(RowsOfOrder(plannedOrders.rows[2].id)) = 0

\* _do_get_completed_orders, called on its own, has returned
CompletedDone == pc = "idle" /\ op = "completed" /\ result.kind = "list"

\* C5: a lookup over N order numbers that returns has issued ceil(N/80)
\* requests, all to the execution service; the batches are the consecutive
\* slices of the input, none longer than 80, every input position in one
\* batch; the list returned has no duplicate and holds exactly the order
\* numbers the requests answered.
BatchedLookup ==
    CompletedDone =>
        LET n == Len(orderNumbers)
            q == Len(reqs)
        IN  /\ q * 80 >= n /\ (q - 1) * 80 < n
            /\ \A k \in 1..q :
                /\ reqs[k].api = "DO" /\ reqs[k].status = "ok"
                /\ Len(reqs[k].batch) <= 80
                /\ Len(reqs[k].batch) = (IF k < q THEN 80 ELSE n - 80 * (q - 1))
            /\ \A i \in 1..n :
                reqs[((i - 1) \div 80) + 1].batch[((i - 1) % 80) + 1] = orderNumbers[i]
            /\ \A i \in 1..Len(result.rows) : \A j \in 1..Len(result.rows) :
                result.rows[i] = result.rows[j] => i = j
            /\ {result.rows[i] : i \in 1..Len(result.rows)}
                = UNION {{reqs[k].returned[i] : i \in 1..Len(reqs[k].returned)} : k \in 1..q}

\* C5 witness: 161 inputs with duplicates, three requests, a non-empty answer
\* from more than one batch
ThreeBatchesWithDuplicates ==
    /\ CompletedDone
    /\ Len(orderNumbers) = 161
    /\ args.period = DupPeriod
    /\ Len(reqs) = 3
    /\ Len(reqs[1].returned) > 0 /\ Len(reqs[3].returned) > 0
    /\ Len(result.rows) = DupPeriod

\* a paged fetch has been made
Paged == lastFetch.fn \in {"fetch_scheduler", "fetch_DO"}

\* the character between the address and the paging parameters
Joiner == lastFetch.url[Len(lastFetch.url) - Len(PagingParams)]

HasQuery(text) == \E i \in 1..Len(text) : text[i] = "?"

\* the address the paging parameters are appended to
Address ==
    IF lastFetch.fn = "fetch_scheduler" THEN baseURLScheduler \o lastFetch.endpoint
    ELSE baseURL \o <<"/">> \o lastFetch.endpoint

\* C6 as stated: the joining character is '&' exactly when the endpoint
\* passed in contains a '?', whatever the site, tenant and base URL.
JoinerFollowsEndpoint ==
    Paged => (Joiner = (IF HasQuery(lastFetch.endpoint) THEN "&" ELSE "?"))

\* C6 amended: the request URL is the address (base URL, then the endpoint)
\* followed by one joining character and the paging parameters; the joining
\* character is '&' exactly when the address contains a '?', and so follows
\* the endpoint alone when the base URL has no '?'.
JoinerFollowsAddress ==
    Paged =>
        /\ SubSeq(lastFetch.url, 1, Len(Address)) = Address
        /\ Len(lastFetch.url) = Len(Address) + 1 + Len(PagingParams)
        /\ SubSeq(lastFetch.url, Len(Address) + 2, Len(lastFetch.url)) = PagingParams
        /\ Joiner = (IF HasQuery(Address) THEN "&" ELSE "?")
        /\ ~HasQuery(IF lastFetch.fn = "fetch_scheduler" THEN baseURLScheduler ELSE baseURL)
             => (Joiner = (IF HasQuery(lastFetch.endpoint) THEN "&" ELSE "?"))

\* C6 witness: fetch_scheduler of an endpoint without '?' on a site with one
QueryInSiteJoinsWithAmpersand ==
    /\ lastFetch.fn = "fetch_scheduler"
    /\ ~HasQuery(lastFetch.endpoint)
    /\ HasQuery(site) /\ ~HasQuery(tenant)
    /\ Joiner = "&"

\* C7: scheduler_get_orders, when every request succeeded and a graph query's
\* field came back null, raises no error.
NullFieldIsNoError ==
    (/\ pc = "idle" /\ op = "orders"
     /\ \A i \in 1..Len(reqs) : reqs[i].status = "ok"
     /\ \E i \in 1..Len(reqs) : reqs[i].isNull)
        => result.kind # "error"

\* C8: a request that met a non-success status is the last request of its
\* call (no retry, nothing after it), the call is over, and its caller holds
\* an error and no rows.
FailedRequestAborts ==
    \A i \in 1..Len(reqs) :
        reqs[i].status = "fail" =>
            /\ i = Len(reqs)
            /\ pc = "idle"
            /\ result = Raised("HTTPError")

\* C8 witness: scheduler_get_orders failing on the completion lookup, after
\* three requests that succeeded
LookupFailureAbortsOrders ==
    /\ op = "orders" /\ pc = "idle"
    /\ Len(reqs) = 4
    /\ reqs[4].api = "DO" /\ reqs[4].status = "fail"
    /\ Len(merged_df) > 0
    /\ result = Raised("HTTPError")

\* C9: with excludeCompleted the view has no row whose Status is in the
\* exclusion set.
NoCompletedWhenExcluded ==
    (OrdersDone /\ args.excludeCompleted) =>
        \A k \in 1..Len(result.rows) : result.rows[k].Status \notin ExcludedStatuses

RequestNames == [i \in 1..Len(reqs) |-> reqs[i].name]

\* a call that returned its view issued every fetch the view depends on
EveryFetchIssued ==
    (pc = "idle" /\ result.kind = "view") =>
        /\ \A i \in 1..Len(reqs) : reqs[i].status = "ok"
        /\ op = "bom" =>
            RequestNames = <<"operations", "routes", "material_definitions", "segments",
                             "segment_equipments", "segment_materials">>
        /\ op = "materials" =>
            RequestNames \in {<<"material_definitions">>,
                              <<"material_definitions", "materials_properties">>}
        /\ op = "orders" =>
            /\ SubSeq(RequestNames, 1, 3) = <<"orders", "getAllocations", "equipments">>
            /\ Len(reqs) = 3 + (IF Len(orderNumbers) = 0 THEN 0 ELSE 1)
            /\ \A i \in 4..Len(reqs) : reqs[i].api = "DO"

\* a step on a constructed object leaves its fields as they are, and a call
\* starts with no request made and no local of an earlier call
ObjectFrame ==
    obj = "ready" =>
        /\ UNCHANGED fields
        /\ obj' = "ready"
        /\ (pc = "idle" /\ pc' # "idle") =>
            /\ reqs' = <<>>
            /\ plannedOrders' = NoneDF /\ scheduledOrder' = NoneDF
            /\ data' = <<>> /\ merged_df' = <<>> /\ orders' = <<>> /\ doOrders' = <<>>
            /\ tables' = <<>>

\* C10: after construction no exposed operation, succeeding or failing,
\* changes the scenario id, the data-template id or the base URLs; a call
\* starts from nothing an earlier call left, and a view is returned only
\* after every fetch it depends on was issued in that call.
OnlyIdsRetained == []EveryFetchIssued /\ [][ObjectFrame]_vars

\* C10 witness: a BOM view returned by an object resolved to data template 2
BomViewAfterSixFetches ==
    /\ pc = "idle" /\ op = "bom" /\ result.kind = "view"
    /\ Len(reqs) = 6
    /\ scheduler_data_id = 2

\* _scheduler_get_planned_order, called on its own, got a list of orders
PlannedAnswered ==
    /\ op = "planned" /\ pc = "idle"
    /\ Len(reqs) = 1 /\ reqs[1].status = "ok"
    /\ data # <<>>

\* C11: the priority of a planned order is High for code 1, Medium for code 2,
\* Low for code 3 and the empty string for every other code and for null, and
\* no priority code makes the call raise: it raises on an answered list only
\* when the list is empty or an order has no item.
PriorityMappingTotal ==
    PlannedAnswered =>
        /\ result.kind \in {"view", "error"}
        /\ result.kind = "error" =>
               \/ data[1] = <<>>
               \/ \E k \in 1..Len(data[1]) : data[1][k].orderItems = <<>>
        /\ result.kind = "view" =>
               \A i \in 1..Len(result.rows) :
                   LET row == result.rows[i]
                       p == data[1][row.id].priority
                   IN  /\ (p = <<1>>) => row.priority = "High"
                       /\ (p = <<2>>) => row.priority = "Medium"
                       /\ (p = <<3>>) => row.priority = "Low"
                       /\ (p \notin {<<1>>, <<2>>, <<3>>}) => row.priority = ""

\* C11 witness: a frame with an order of null priority and an order of the
\* largest code, both labelled with the empty string
UnknownPrioritiesBlank ==
    /\ PlannedAnswered /\ result.kind = "view"
    /\ \E i, j \in 1..Len(result.rows) :
           /\ data[1][result.rows[i].id].priority = <<>>
           /\ data[1][result.rows[j].id].priority = <<MaxPriority>>
           /\ result.rows[i].priority = "" /\ result.rows[j].priority = ""

\* C14: every planned order takes its single-item fields from the first of
\* its order items, an order without items has null in these fields, and
\* Stage A returns its frame whatever the item lists are.
FirstItemOrNull ==
    (PlannedAnswered /\ data[1] # <<>>) =>
        /\ result.kind = "view"
        /\ \A i \in 1..Len(result.rows) :
               LET row == result.rows[i]
                   items == data[1][row.id].orderItems
               IN  IF items = <<>> THEN
                       /\ row.orderItemsId = <<>> /\ row.orderedQuantity = <<>>
                       /\ row.orderUOM = <<>> /\ row.ProductCode = <<>>
                   ELSE
                       /\ row.orderItemsId = items[1]
                       /\ row.orderedQuantity = ItemQuantity(items[1])
                       /\ row.orderUOM = ItemUOM(items[1])
                       /\ row.ProductCode = <<"P">> \o Str(items[1])

\* scheduler_get_bom_setup returned its view
BomDone == op = "bom" /\ pc = "idle" /\ result.kind = "view"

\* row j carries every column of row l with the value it has in l
Extends(j, l) == \A f \in DOMAIN l : j[f] = l[f]

RatesAreNumbers ==
    BomDone =>
        \A m \in 1..Len(result.rows) :
            LET row == result.rows[m]
                segs == Table(tables, "segments")
                Coerced(cell) ==
                    IF cell.t = "num" THEN cell
                    ELSE IF cell.t = "str" /\ IsDigits(cell.s) THEN Num(ParseNat(cell.s))
                    ELSE Num(0)
            IN  /\ row.Rate.t = "num" /\ row.FixedDuration.t = "num"
                /\ row.RatePerHour = Num(3600 * row.Rate.v)
                /\ IF row.Segment = <<>> THEN
                       row.Rate = Num(0) /\ row.FixedDuration = Num(0)
                   ELSE
                       \E i \in 1..Len(segs) :
                           /\ segs[i].operationCode = row.OperationCode
                           /\ segs[i].segmentCode = row.Segment
                           /\ row.Rate = Coerced(segs[i].rate)
                           /\ row.FixedDuration = Coerced(segs[i].fixedDuration)

====
